---- MODULE Spec2Model ----
(***************************************************************************)
(* A model of pagmo::xnes (include/pagmo/algorithms/xnes.hpp): the         *)
(* constructor, set_verbosity and evolve, the latter stepped one           *)
(* generation of its loop at a time.                                       *)
(*                                                                         *)
(* Real numbers (C++ double) are fixed-point integers in units of 1/Scale: *)
(* the double 0.5 is the integer 50, the sentinel -1 is -Scale.  Products  *)
(* are renormalised by \div Scale.  std::log, std::sqrt, std::exp and the  *)
(* matrix exponential are library primitives; they are modelled by tables  *)
(* and by their second-order Taylor polynomial.                            *)
(***************************************************************************)
EXTENDS Integers, Sequences, FiniteSets, TLC

VARIABLES
    \* data members of xnes (xnes.hpp:531-549)
    m_gen, m_eta_mu, m_eta_sigma, m_eta_b, m_sigma0, m_ftol, m_xtol, m_memory,
    sigma, mean, A, m_e, m_seed, m_verbosity, m_log,
    \* the frame of the running evolve call (xnes.hpp:180-273)
    pc, pop, gen, eta_mu, eta_sigma, eta_b, u, fevals0, z,
    \* what the caller observes of the last operation, and history
    outcome, ret, arg, ncalls, x_sampled, ctor_args, log_call, prev_logged

self_vars == <<m_gen, m_eta_mu, m_eta_sigma, m_eta_b, m_sigma0, m_ftol, m_xtol,
               m_memory, sigma, mean, A, m_e, m_seed, m_verbosity, m_log>>
frame_vars == <<pc, pop, gen, eta_mu, eta_sigma, eta_b, u, fevals0, z>>
obs_vars == <<outcome, ret, arg, ncalls, x_sampled, ctor_args, log_call, prev_logged>>
vars == <<self_vars, frame_vars, obs_vars>>

----------------------------------------------------------------------------
(* Bounds of the model *)

\* one double unit: the fixed-point resolution
Scale == 100
\* unsigned int is modelled UIntMod values wide (the loop counter wraps at it)
UIntMod == 16
\* the number of evolve calls made on one instance in one behaviour
MaxCalls == 2
\* the largest population size handed to evolve
MaxLam == 5
\* the number of generations one evolve call is followed for
MaxGenerations == 18

----------------------------------------------------------------------------
(* Fixed-point arithmetic, vectors and matrices *)

Abs(a) == IF a < 0 THEN -a ELSE a
Max(a, b) == IF a < b THEN b ELSE a

RECURSIVE SumTo(_, _)
\* f[1] + ... + f[n]
SumTo(f, n) == IF n = 0 THEN 0 ELSE SumTo(f, n - 1) + f[n]

Mul(a, b) == (a * b) \div Scale

Zero(dim) == [j \in 1..dim |-> 0]
Identity(dim) == [i \in 1..dim |-> [j \in 1..dim |-> IF i = j THEN Scale ELSE 0]]
VecAdd(a, b) == [j \in 1..Len(a) |-> a[j] + b[j]]
VecScale(c, a) == [j \in 1..Len(a) |-> Mul(c, a[j])]
MatVec(M, v) == [i \in 1..Len(M) |-> SumTo([k \in 1..Len(v) |-> M[i][k] * v[k]], Len(v)) \div Scale]
MatMul(M, N) == [i \in 1..Len(M) |-> [j \in 1..Len(M) |->
                    SumTo([k \in 1..Len(M) |-> M[i][k] * N[k][j]], Len(M)) \div Scale]]
Outer(a, b) == [i \in 1..Len(a) |-> [j \in 1..Len(b) |-> Mul(a[i], b[j])]]
Trace(M) == SumTo([i \in 1..Len(M) |-> M[i][i]], Len(M))

RECURSIVE ISqrt(_)
\* the integer square root
ISqrt(n) == IF n < 2 THEN n
            ELSE LET s == 2 * ISqrt(n \div 4)
                 IN  IF (s + 1) * (s + 1) > n THEN s ELSE s + 1

\* Eigen's norm(): the Euclidean norm (entries are in units of 1/Scale)
Norm(v) == ISqrt(SumTo([j \in 1..Len(v) |-> v[j] * v[j]], Len(v)))

\* std::log of k/2, for k = 1..16
LogHalves == <<-69, 0, 41, 69, 92, 110, 125, 139, 150, 161, 170, 179, 187, 195, 201, 208>>
Log2x(k) == LogHalves[k]
\* std::sqrt of n, for n = 1..4
Sqrt(n) == <<100, 141, 173, 200>>[n]
\* std::exp, as 1 + x + x^2/2
Exp(x) == Scale + x + Mul(x, x) \div 2
\* Eigen's MatrixBase::exp(), as I + M + M^2/2
MatExp(M) == [i \in 1..Len(M) |-> [j \in 1..Len(M) |->
                 (IF i = j THEN Scale ELSE 0) + M[i][j]
                 + (SumTo([k \in 1..Len(M) |-> M[i][k] * M[k][j]], Len(M)) \div Scale) \div 2]]

----------------------------------------------------------------------------
(* The collaborators: the problem, the population, the random engine *)

\* a problem: dimension, constraints, objectives, box bounds, stochasticity
Problem(nx, nc, nf, stochastic) ==
    [nx |-> nx, nc |-> nc, nf |-> nf, stochastic |-> stochastic,
     lb |-> [j \in 1..nx |-> IF j = 1 THEN -200 ELSE -100],
     ub |-> [j \in 1..nx |-> IF j = 1 THEN 200 ELSE 300]]

\* the objective: the sphere function, plus seed-dependent noise if stochastic
Fitness(prob, seed, x) ==
    LET v == SumTo([j \in 1..Len(x) |-> x[j] * x[j]], Len(x)) \div Scale
             + (IF prob.stochastic THEN seed % 3 ELSE 0)
    IN  [k \in 1..prob.nf |-> v]

\* a population of lam individuals inside the bounds, all evaluated
MakePop(prob, lam, k) ==
    LET xs == [i \in 1..lam |-> [j \in 1..prob.nx |->
                  prob.lb[j] + (((i * 53 + j * 31 + k * 17) * 7) % (prob.ub[j] - prob.lb[j] + 1))]]
    IN  [prob |-> prob, x |-> xs, f |-> [i \in 1..lam |-> Fitness(prob, 0, xs[i])],
         fevals |-> lam, seed |-> 0]

\* population::set_x: overwrites individual i and evaluates it
SetX(p, i, x) ==
    [p EXCEPT !.x[i] = x, !.f[i] = Fitness(p.prob, p.seed, x), !.fevals = @ + 1]

\* population::best_idx / worst_idx: the first smallest / largest fitness
BestIdx(p) == CHOOSE i \in 1..Len(p.f) :
                 /\ \A k \in 1..Len(p.f) : p.f[i][1] <= p.f[k][1]
                 /\ \A k \in 1..(i - 1) : p.f[k][1] > p.f[i][1]
WorstIdx(p) == CHOOSE i \in 1..Len(p.f) :
                 /\ \A k \in 1..Len(p.f) : p.f[i][1] >= p.f[k][1]
                 /\ \A k \in 1..(i - 1) : p.f[k][1] < p.f[i][1]

\* the random engine: one step of its state
EngineNext(e) == (37 * e + 11) % 64
RECURSIVE EngineAfter(_, _)
EngineAfter(e, n) == IF n = 0 THEN e ELSE EngineNext(EngineAfter(e, n - 1))
\* std::normal_distribution(0, 1) read off the engine state
NormalValue(e) == <<0, 50, -50, 100, -100, 0, 50, -100>>[(e \div 8) + 1]
\* std::uniform_real_distribution(0, 1) read off the engine state: in [0, 1)
UniformValue(e) == (e * Scale) \div 64

----------------------------------------------------------------------------
(* xnes::xnes, the constructor (xnes.hpp:135-166) *)

\* the test made on each of eta_mu, eta_sigma, eta_b and sigma0
\* the test with 0 accepted
OutOfRangeZeroAccepted(v) == ((v < 0) \/ (v > Scale)) /\ ~(v = -Scale)
OutOfRange(v) == ((v <= 0) \/ (v > Scale)) /\ ~(v = -Scale)

CtorThrows(a) ==
    \/ OutOfRange(a.eta_mu)
    \/ OutOfRange(a.eta_sigma)
    \/ OutOfRange(a.eta_b)
    \/ OutOfRange(a.sigma0)

\* the members after the initialiser list and the constructor's body
xnes(a) ==
    [m_gen |-> a.gen, m_eta_mu |-> a.eta_mu, m_eta_sigma |-> a.eta_sigma,
     m_eta_b |-> a.eta_b, m_sigma0 |-> a.sigma0, m_ftol |-> a.ftol, m_xtol |-> a.xtol,
     m_memory |-> a.memory, m_e |-> a.seed, m_seed |-> a.seed, m_verbosity |-> 0,
     m_log |-> <<>>,
     sigma |-> a.sigma0, mean |-> Zero(1), A |-> Identity(1)]

----------------------------------------------------------------------------
(* xnes::evolve, the preamble (xnes.hpp:194-215) *)

HasConstraints(p) == p.prob.nc # 0
MultiObjective(p) == p.prob.nf # 1
TooFewIndividuals(p) == Len(p.x) < 4
EvolveThrows(p) == HasConstraints(p) \/ MultiObjective(p) \/ TooFewIndividuals(p)
\* the early return left out
NothingToDoNever == FALSE
NothingToDo == m_gen = 0
\* the log not cleared
KeptLog == m_log
\* m_log.clear()
ClearedLog == <<>>

(* xnes::evolve, the learning rates (xnes.hpp:223-235).  The three tests are *)
(* written with =, an assignment: the local is overwritten by -1, and the    *)
(* condition is the assigned value converted to bool.                        *)
AssignedInTest == -Scale
LocalEtaMu(m) == LET init == m
                     assigned == AssignedInTest
                 IN  IF assigned # 0 THEN Scale ELSE assigned
CommonDefault(dim) == (Mul(60, 300 + Log2x(2 * dim)) * Scale) \div (dim * Sqrt(dim))
LocalEtaSigma(m, dim) == LET init == m
                             assigned == AssignedInTest
                         IN  IF assigned # 0 THEN CommonDefault(dim) ELSE assigned
LocalEtaB(m, dim) == LET init == m
                         assigned == AssignedInTest
                     IN  IF assigned # 0 THEN CommonDefault(dim) ELSE assigned

(* xnes::evolve, the utility function u (xnes.hpp:236-247) *)
Utilities(lam) ==
    LET w == [i \in 1..lam |-> Max(0, Log2x(lam + 2) - Log2x(2 * i))]
        sum == SumTo(w, lam)
    IN  [i \in 1..lam |-> (w[i] * Scale) \div sum - Scale \div lam]

(* xnes::evolve, the memory (xnes.hpp:248-267) *)
\* the test without the comparison of the dimensions
NeedsReinitFlagOnly(dim) == m_memory = FALSE
\* the memory flag read the wrong way round
NeedsReinitFlagInverted(dim) == (Len(mean) # dim) \/ (m_memory = TRUE)
NeedsReinit(dim) == (Len(mean) # dim) \/ (m_memory = FALSE)
InitSigma == IF m_sigma0 = -Scale THEN Scale ELSE m_sigma0
\* 1e-6, the smallest width: one unit of the model
MinWidth == 1
InitA(prob, sg) ==
    [i \in 1..prob.nx |-> [j \in 1..prob.nx |->
        IF i = j THEN Mul(Max(prob.ub[j] - prob.lb[j], MinWidth), sg) ELSE 0]]
InitMean(p) == p.x[BestIdx(p)]

----------------------------------------------------------------------------
(* xnes::evolve, one generation (xnes.hpp:284-378) *)

\* 0 - a stochastic problem is given a new seed drawn from m_e
Reseed(st) ==
    IF st.pop.prob.stochastic
    THEN LET e1 == EngineNext(st.e)
         IN  [st EXCEPT !.e = e1, !.pop.seed = e1]
    ELSE st

\* the test of the bound repair
\* the test without its upper half
OutOfBoundsLowerOnly(xj, lbj, ubj) == xj < lbj
OutOfBounds(xj, lbj, ubj) == (xj < lbj) \/ (xj > ubj)

RECURSIVE FixBounds(_, _, _, _, _)
\* the repair loop from coordinate j on: [x, e] after it
FixBounds(x, lb, ub, e, j) ==
    IF j > Len(x) THEN [x |-> x, e |-> e]
    ELSE IF OutOfBounds(x[j], lb[j], ub[j])
         THEN LET e1 == EngineNext(e)
              IN  FixBounds([x EXCEPT ![j] = lb[j] + Mul(UniformValue(e1), ub[j] - lb[j])],
                            lb, ub, e1, j + 1)
         ELSE FixBounds(x, lb, ub, e, j + 1)

\* 1 - individual i: z[i] is drawn, x[i] = mean + A * z[i] is repaired and set
SampleOne(st, i) ==
    LET prob == st.pop.prob
        zi == [j \in 1..prob.nx |-> NormalValue(EngineAfter(st.e, j))]
        e1 == EngineAfter(st.e, prob.nx)
        xi == VecAdd(mean, MatVec(A, zi))
        fix == FixBounds(xi, prob.lb, prob.ub, e1, 1)
    IN  [e |-> fix.e, pop |-> SetX(st.pop, i, fix.x),
         z |-> [st.z EXCEPT ![i] = zi], xs |-> [st.xs EXCEPT ![i] = xi]]

RECURSIVE SampleUpTo(_, _)
\* 1 - the sampling loop over the individuals 1..n
SampleUpTo(st, n) == IF n = 0 THEN st ELSE SampleOne(SampleUpTo(st, n - 1), n)

\* the state of a generation after step 0 and step 1
Sampled ==
    SampleUpTo(Reseed([e |-> m_e, pop |-> pop, z |-> z, xs |-> z]), Len(pop.x))

\* 2 - the exit conditions
\* the exit conditions checked every 5 generations
ChecksExitEvery5(g) == g % 5 = 0
ChecksExit(g) == g % 10 = 0
Dx(zz) == Norm(MatVec(A, zz[1]))
Df(p) == Abs(p.f[BestIdx(p)][1] - p.f[WorstIdx(p)][1])
XtolMet(zz) == Dx(zz) < m_xtol
FtolMet(p) == Df(p) < m_ftol
ExitCondition(g, st) ==
    IF ChecksExit(g) /\ XtolMet(st.z) THEN "xtol"
    ELSE IF ChecksExit(g) /\ FtolMet(st.pop) THEN "ftol"
    ELSE "none"

\* 2bis - the log
\* a line on the multiples of the verbosity
LogsLineMultiples(g) == (m_verbosity > 0) /\ ((g % m_verbosity = 0) \/ (m_verbosity = 1))
LogsLine(g) == (m_verbosity > 0) /\ ((g % m_verbosity = 1) \/ (m_verbosity = 1))
\* the line with the worst fitness in its best field
LogLineWorst(g, st) ==
    [gen |-> g, fevals |-> st.pop.fevals - fevals0, best |-> st.pop.f[WorstIdx(st.pop)][1],
     dx |-> Dx(st.z), df |-> Df(st.pop), sigma |-> sigma]
LogLine(g, st) ==
    [gen |-> g, fevals |-> st.pop.fevals - fevals0, best |-> st.pop.f[BestIdx(st.pop)][1],
     dx |-> Dx(st.z), df |-> Df(st.pop), sigma |-> sigma]

\* 3 - the indices sorted by fitness (std::sort on at most 16 elements is an
\* insertion sort: equal fitnesses keep their order)
SortedIdx(p) ==
    LET rank(i) == 1 + Cardinality({k \in 1..Len(p.f) :
                        \/ p.f[k][1] < p.f[i][1]
                        \/ (p.f[k][1] = p.f[i][1] /\ k < i)})
    IN  [r \in 1..Len(p.f) |-> CHOOSE i \in 1..Len(p.f) : rank(i) = r]

\* 4 - the natural gradient: d_center, cov_grad (before its trace is removed),
\* d_A, and the new mean, A and sigma
DCenter(zz, s_idx) ==
    [j \in 1..Len(zz[1]) |-> SumTo([i \in 1..Len(u) |-> u[i] * zz[s_idx[i]][j]], Len(u)) \div Scale]
CovGrad(zz, s_idx) ==
    [a \in 1..Len(zz[1]) |-> [b \in 1..Len(zz[1]) |->
        SumTo([i \in 1..Len(u) |->
                  u[i] * (Mul(zz[s_idx[i]][a], zz[s_idx[i]][b]) - (IF a = b THEN Scale ELSE 0))],
              Len(u)) \div Scale]]
DA(cov_grad) ==
    LET dim == Len(cov_grad)
        t == Trace(cov_grad) \div dim
    IN  [a \in 1..dim |-> [b \in 1..dim |->
            ((IF a = b THEN Mul(eta_sigma, t) ELSE 0)
             + Mul(eta_b, cov_grad[a][b] - (IF a = b THEN t ELSE 0))) \div 2]]
NewMean(d_center) == VecAdd(mean, VecScale(eta_mu, MatVec(A, d_center)))
NewA(cov_grad) == MatMul(A, MatExp(DA(cov_grad)))
NewSigma(cov_grad) ==
    Mul(sigma, Exp(Mul(eta_sigma \div 2, Trace(cov_grad) \div Len(cov_grad))))

----------------------------------------------------------------------------
(* The inputs *)

\* the arguments of the constructor, for the specification of evolve: every
\* combination for the short budgets, and the long budget (which reaches the
\* exit conditions) with each pair of tolerances and both memory flags, and the
\* largest budget of the type with tolerances that no generation meets
EtaArgs == {<<-Scale, -Scale, -Scale>>, <<50, 25, 75>>}
GenArgs == {0, 3, 11, UIntMod - 1}
TolArgs == {<<1, 1>>, <<100000, 1>>, <<1, 100000>>, <<0, 0>>}
SeedArgs == {5, 42}
Args ==
    {a \in [gen : GenArgs, eta_mu : {-Scale, 50}, eta_sigma : {-Scale, 25},
            eta_b : {-Scale, 75}, sigma0 : {-Scale, 50}, xtol : {0, 1, 100000},
            ftol : {0, 1, 100000}, memory : BOOLEAN, seed : SeedArgs] :
        /\ <<a.eta_mu, a.eta_sigma, a.eta_b>> \in EtaArgs
        /\ <<a.xtol, a.ftol>> \in TolArgs
        /\ a.gen = 11 => (a.eta_mu = -Scale /\ a.sigma0 = -Scale /\ a.seed = 5)
        /\ a.gen \notin {11, UIntMod - 1} => (a.xtol = 1 /\ a.ftol = 1)
        /\ a.gen = UIntMod - 1 <=> (a.xtol = 0 /\ a.ftol = 0)
        /\ a.gen = UIntMod - 1 =>
              (a.eta_mu = -Scale /\ a.sigma0 = -Scale /\ a.seed = 5 /\ ~a.memory)
        /\ a.gen = 0 => (a.eta_mu = -Scale /\ a.seed = 5)}

\* the arguments of the constructor, for the specification of the constructor
ParamArgs == {-2 * Scale, -Scale, -1, 0, 1, Scale, Scale + 1}
AllArgs ==
    {[gen |-> 1, eta_mu |-> a, eta_sigma |-> b, eta_b |-> c, sigma0 |-> d,
      ftol |-> 1, xtol |-> 1, memory |-> FALSE, seed |-> 5] :
        a \in ParamArgs, b \in ParamArgs, c \in ParamArgs, d \in ParamArgs}

\* the populations a caller hands to evolve: every size up to 4 and one above
\* for the plain problem, the other problems at the largest size
InputPops ==
    {MakePop(Problem(1, 0, 1, FALSE), lam, 0) : lam \in (0..4) \cup {MaxLam}}
    \cup {MakePop(Problem(2, 0, 1, FALSE), MaxLam, 1),
          MakePop(Problem(2, 0, 1, TRUE), MaxLam, 2),
          MakePop(Problem(1, 1, 1, FALSE), MaxLam, 0),
          MakePop(Problem(2, 0, 2, FALSE), MaxLam, 1)}
Levels == {0, 1, 3}

----------------------------------------------------------------------------
(* The state machine *)

NoPop == MakePop(Problem(1, 0, 1, FALSE), 0, 0)

\* the state in which the object o has just been constructed
Constructed(o) ==
    /\ m_gen = o.m_gen /\ m_eta_mu = o.m_eta_mu /\ m_eta_sigma = o.m_eta_sigma
    /\ m_eta_b = o.m_eta_b /\ m_sigma0 = o.m_sigma0 /\ m_ftol = o.m_ftol
    /\ m_xtol = o.m_xtol /\ m_memory = o.m_memory /\ m_e = o.m_e /\ m_seed = o.m_seed
    /\ m_verbosity = o.m_verbosity /\ m_log = o.m_log
    /\ sigma = o.sigma /\ mean = o.mean /\ A = o.A

NoFrame ==
    /\ pop = NoPop /\ gen = 0 /\ eta_mu = 0 /\ eta_sigma = 0 /\ eta_b = 0
    /\ u = <<>> /\ fevals0 = 0 /\ z = <<>>
    /\ ret = "none" /\ arg = NoPop /\ ncalls = 0 /\ x_sampled = <<>>
    /\ log_call = <<>> /\ prev_logged = FALSE

Init ==
    \E a \in Args :
        /\ ~CtorThrows(a)
        /\ Constructed(xnes(a))
        /\ NoFrame
        /\ pc = "idle" /\ outcome = "none" /\ ctor_args = a

\* xnes::set_verbosity (xnes.hpp:428-431)
SetVerbosity(level) ==
    /\ pc = "idle"
    /\ m_verbosity' = level
    /\ outcome' = "none"
    /\ ret' = "none"
    /\ UNCHANGED <<m_gen, m_eta_mu, m_eta_sigma, m_eta_b, m_sigma0, m_ftol, m_xtol,
                   m_memory, sigma, mean, A, m_e, m_seed, m_log>>
    /\ UNCHANGED <<frame_vars, arg, ncalls, x_sampled, ctor_args, log_call, prev_logged>>

\* xnes::evolve up to the loop (xnes.hpp:180-283): the population p is copied
\* into the frame, checked, and the locals and the memory are prepared
EvolveBegin(p) ==
    /\ pc = "idle"
    /\ ncalls < MaxCalls
    /\ ncalls' = ncalls + 1
    /\ arg' = p
    /\ pop' = p
    /\ fevals0' = p.fevals
    /\ prev_logged' = (m_log # <<>>)
    /\ UNCHANGED <<m_gen, m_eta_mu, m_eta_sigma, m_eta_b, m_sigma0, m_ftol, m_xtol,
                   m_memory, m_e, m_seed, m_verbosity, ctor_args>>
    /\ IF EvolveThrows(p)
       THEN /\ outcome' = "invalid_argument"
            /\ ret' = "none"
            /\ UNCHANGED <<sigma, mean, A, m_log, pc, gen, eta_mu, eta_sigma, eta_b, u, z,
                           x_sampled>>
       ELSE IF NothingToDo
       THEN /\ outcome' = "returned"
            /\ ret' = "gen0"
            /\ UNCHANGED <<sigma, mean, A, m_log, pc, gen, eta_mu, eta_sigma, eta_b, u, z,
                           x_sampled>>
       ELSE /\ m_log' = ClearedLog
            /\ eta_mu' = LocalEtaMu(m_eta_mu)
            /\ eta_sigma' = LocalEtaSigma(m_eta_sigma, p.prob.nx)
            /\ eta_b' = LocalEtaB(m_eta_b, p.prob.nx)
            /\ u' = Utilities(Len(p.x))
            /\ IF NeedsReinit(p.prob.nx)
               THEN /\ sigma' = InitSigma
                    /\ A' = InitA(p.prob, InitSigma)
                    /\ mean' = InitMean(p)
               ELSE UNCHANGED <<sigma, mean, A>>
            /\ z' = [i \in 1..Len(p.x) |-> Zero(p.prob.nx)]
            /\ x_sampled' = [i \in 1..Len(p.x) |-> Zero(p.prob.nx)]
            /\ gen' = 1
            /\ pc' = "loop"
            /\ outcome' = "running"
            /\ ret' = "none"
    /\ log_call' = SubSeq(log_call, 1, Len(m_log'))

\* xnes::evolve, one iteration of the loop (xnes.hpp:284-378)
Generation ==
    /\ pc = "loop"
    /\ gen <= m_gen
    /\ pop.fevals - fevals0 < MaxGenerations * Len(pop.x)
    /\ \E st \in {Sampled} :
           /\ m_e' = st.e
           /\ pop' = st.pop
           /\ z' = st.z
           /\ x_sampled' = st.xs
           /\ \E exit \in {ExitCondition(gen, st)} :
                IF exit # "none"
                THEN /\ pc' = "idle"
                     /\ outcome' = "returned"
                     /\ ret' = exit
                     /\ UNCHANGED <<m_log, mean, A, sigma, gen, log_call>>
                ELSE \E s_idx \in {SortedIdx(st.pop)} :
                     \E cov_grad \in {CovGrad(st.z, s_idx)} :
                     /\ m_log' = IF LogsLine(gen) THEN Append(m_log, LogLine(gen, st))
                                 ELSE m_log
                     /\ log_call' = IF LogsLine(gen) THEN Append(log_call, ncalls)
                                    ELSE log_call
                     /\ mean' = NewMean(DCenter(st.z, s_idx))
                     /\ A' = NewA(cov_grad)
                     /\ sigma' = NewSigma(cov_grad)
                     /\ gen' = (gen + 1) % UIntMod
                     /\ UNCHANGED <<pc, outcome, ret>>
    /\ UNCHANGED <<m_gen, m_eta_mu, m_eta_sigma, m_eta_b, m_sigma0, m_ftol, m_xtol,
                   m_memory, m_seed, m_verbosity>>
    /\ UNCHANGED <<eta_mu, eta_sigma, eta_b, u, fevals0, arg, ncalls, ctor_args, prev_logged>>

\* xnes::evolve, the end of the loop (xnes.hpp:284, 379-382)
LoopEnd ==
    /\ pc = "loop"
    /\ ~(gen <= m_gen)
    /\ pc' = "idle"
    /\ outcome' = "returned"
    /\ ret' = "generations"
    /\ UNCHANGED <<self_vars, pop, gen, eta_mu, eta_sigma, eta_b, u, fevals0, z>>
    /\ UNCHANGED <<arg, ncalls, x_sampled, ctor_args, log_call, prev_logged>>

Next ==
    \/ \E level \in Levels : SetVerbosity(level)
    \/ \E p \in InputPops \cup {pop} : EvolveBegin(p)
    \/ Generation
    \/ LoopEnd

Spec == Init /\ [][Next]_vars

----------------------------------------------------------------------------
(* The constructor on arbitrary arguments *)

NoArgs == [gen |-> 0, eta_mu |-> 0, eta_sigma |-> 0, eta_b |-> 0, sigma0 |-> 0,
           ftol |-> 0, xtol |-> 0, memory |-> FALSE, seed |-> 0]

\* no object yet
InitCtor ==
    /\ Constructed([xnes(NoArgs) EXCEPT !.mean = <<>>, !.A = <<>>])
    /\ NoFrame
    /\ pc = "new" /\ outcome = "none" /\ ctor_args = NoArgs

\* xnes::xnes (xnes.hpp:135-166): throws, or leaves a constructed object
Construct(a) ==
    /\ pc = "new"
    /\ ctor_args' = a
    /\ IF CtorThrows(a)
       THEN /\ pc' = "failed"
            /\ outcome' = "invalid_argument"
            /\ UNCHANGED self_vars
       ELSE /\ pc' = "idle"
            /\ outcome' = "none"
            /\ \E o \in {xnes(a)} :
                 /\ m_gen' = o.m_gen /\ m_eta_mu' = o.m_eta_mu
                 /\ m_eta_sigma' = o.m_eta_sigma /\ m_eta_b' = o.m_eta_b
                 /\ m_sigma0' = o.m_sigma0 /\ m_ftol' = o.m_ftol /\ m_xtol' = o.m_xtol
                 /\ m_memory' = o.m_memory /\ m_e' = o.m_e /\ m_seed' = o.m_seed
                 /\ m_verbosity' = o.m_verbosity /\ m_log' = o.m_log
                 /\ sigma' = o.sigma /\ mean' = o.mean /\ A' = o.A
    /\ UNCHANGED <<pop, gen, eta_mu, eta_sigma, eta_b, u, fevals0, z>>
    /\ UNCHANGED <<ret, arg, ncalls, x_sampled, log_call, prev_logged>>

NextCtor == \E a \in AllArgs : Construct(a)

SpecCtor == InitCtor /\ [][NextCtor]_vars

----------------------------------------------------------------------------
(* Properties *)

InBounds(x, prob) == \A j \in 1..Len(x) : prob.lb[j] <= x[j] /\ x[j] <= prob.ub[j]
BestFitness(p) == p.f[BestIdx(p)][1]
\* the last operation was an evolve call that passed the preamble with a
\* nonzero budget and has sampled at least one generation
HasSampled == outcome \in {"running", "returned"} /\ ret # "gen0" /\ gen > 1
\* the generations 1..last in which a line is logged at verbosity v
LoggedGens(last, v) ==
    SelectSeq([g \in 1..last |-> g], LAMBDA g : v = 1 \/ g % v = 1)
LogGens == [k \in 1..Len(m_log) |-> m_log[k].gen]
ExitFired == ret \in {"xtol", "ftol"}

\* C1: an evolve call on a population whose problem has nc > 0, or nf # 1, or
\* whose size is <= 4 raises invalid_argument, and leaves the population, mean,
\* A, sigma, the engine and the log as they were before the call.
C1_InvalidPopulationRejected ==
    [][(ncalls' = ncalls + 1
        /\ (arg'.prob.nc > 0 \/ arg'.prob.nf # 1 \/ Len(arg'.x) <= 4))
       => (outcome' = "invalid_argument" /\ pop' = arg'
           /\ UNCHANGED <<mean, A, sigma, m_e, m_log>>)]_vars

\* C2: a learning rate constructed with a fixed value is the value the updates
\* of every generation use; the automatic value is used only for the sentinel.
C2_ConfiguredRatesUsed ==
    outcome = "running" =>
        /\ eta_mu = (IF m_eta_mu = -Scale THEN Scale ELSE m_eta_mu)
        /\ eta_sigma = (IF m_eta_sigma = -Scale THEN CommonDefault(pop.prob.nx)
                        ELSE m_eta_sigma)
        /\ eta_b = (IF m_eta_b = -Scale THEN CommonDefault(pop.prob.nx) ELSE m_eta_b)

\* C3: between the return of one call and the first generation of the next,
\* mean, A and sigma are not touched when memory is on and the dimension is the
\* same (the next call samples from the values the last update left); with
\* memory off, the next call starts from sigma0 or 1, the diagonal A of the
\* bounds and the best individual of its population, whatever was left.
C3_MemoryAcrossCalls ==
    /\ [][(pc = "idle" /\ m_memory /\ (pc' = "loop" => Len(mean) = arg'.prob.nx))
          => UNCHANGED <<mean, A, sigma>>]_vars
    /\ [][(pc = "loop" /\ pc' = "idle") => UNCHANGED <<mean, A, sigma>>]_vars
    /\ [][(pc = "idle" /\ pc' = "loop" /\ ~m_memory)
          => /\ sigma' = (IF m_sigma0 = -Scale THEN Scale ELSE m_sigma0)
             /\ mean' = arg'.x[BestIdx(arg')]
             /\ A' = [i \in 1..arg'.prob.nx |-> [j \in 1..arg'.prob.nx |->
                        IF i = j
                        THEN Mul(Max(arg'.prob.ub[j] - arg'.prob.lb[j], MinWidth), sigma')
                        ELSE 0]]]_vars
\* the second call on an instance with memory starts its first generation with
\* an A that an earlier call of the same dimension has adapted
C3_Witness ==
    /\ pc = "loop" /\ gen = 1 /\ ncalls = 2 /\ m_memory
    /\ A # Identity(1) /\ A # InitA(arg.prob, InitSigma)
    /\ mean # InitMean(arg)

\* C4: with a budget of 0, an evolve call on a population that passes the
\* checks returns it as it was given (no evaluation made), and leaves mean, A,
\* sigma and the engine alone.
C4_ZeroBudgetNoOp ==
    [][(ncalls' = ncalls + 1 /\ m_gen = 0 /\ ~EvolveThrows(arg'))
       => (outcome' = "returned" /\ pc' = "idle" /\ pop' = arg'
           /\ pop'.fevals = arg'.fevals
           /\ UNCHANGED <<mean, A, sigma, m_e>>)]_vars
C4_Witness ==
    /\ outcome = "returned" /\ ret = "gen0" /\ m_gen = 0
    /\ Len(arg.x) >= 5 /\ pop = arg

C7_LogClearedByEveryCall ==
    outcome \in {"returned", "invalid_argument"} =>
        /\ m_verbosity = 0 => m_log = <<>>
        /\ \A k \in 1..Len(log_call) : log_call[k] = ncalls
\* C7 (amended): after every evolve call that passes the checks of the preamble
\* the log holds only lines of that call, and none if the verbosity is 0; a
\* call that throws leaves the log of the call before it.
C7_LogClearedByValidCalls ==
    /\ outcome \in {"running", "returned"} =>
          /\ m_verbosity = 0 => m_log = <<>>
          /\ \A k \in 1..Len(log_call) : log_call[k] = ncalls
          /\ Len(log_call) = Len(m_log)
    /\ outcome = "invalid_argument" => (m_log # <<>> <=> prev_logged)
\* a call with verbosity 0 has returned, and the call before it had logged
C7_Witness ==
    /\ outcome = "returned" /\ m_verbosity = 0 /\ m_gen > 0
    /\ prev_logged /\ m_log = <<>>

\* C8 (as stated): with verbosity v > 0 the log after the call has a line for
\* exactly the generations g in 1..S with v = 1 or g mod v = 1, S being the
\* generation in which an exit condition fired, or the budget.
C8_LogUpToStoppingGeneration ==
    (outcome = "returned" /\ m_verbosity > 0) =>
        LogGens = LoggedGens(IF ExitFired THEN gen ELSE m_gen, m_verbosity)
\* C8 (amended): the exit conditions are tested before the line is logged, so
\* the generation in which one fires gets no line: the lines are those of the
\* generations g in 1..S-1 (1..budget if none fired) with v = 1 or g mod v = 1.
C8_LogUpToLastUpdatedGeneration ==
    (outcome = "returned" /\ m_verbosity > 0) =>
        LogGens = LoggedGens(IF ExitFired THEN gen - 1 ELSE m_gen, m_verbosity)
\* an exit condition fired in generation 10 at verbosity 1: 9 lines
C8_Witness ==
    /\ outcome = "returned" /\ ExitFired /\ gen = 10
    /\ m_verbosity = 1 /\ Len(m_log) = 9

C11_DimensionsMatch ==
    /\ [](pc = "loop" =>
            /\ Len(mean) = pop.prob.nx
            /\ Len(A) = pop.prob.nx
            /\ \A i \in 1..Len(A) : Len(A[i]) = pop.prob.nx)
    /\ [][(pc = "idle" /\ pc' = "loop" /\ Len(mean) # arg'.prob.nx)
          => /\ sigma' = (IF m_sigma0 = -Scale THEN Scale ELSE m_sigma0)
             /\ mean' = arg'.x[BestIdx(arg')]
             /\ A' = [i \in 1..arg'.prob.nx |-> [j \in 1..arg'.prob.nx |->
                        IF i = j
                        THEN Mul(Max(arg'.prob.ub[j] - arg'.prob.lb[j], MinWidth), sigma')
                        ELSE 0]]]_vars
\* with memory on, the second call is on a problem of dimension 1 and starts
\* from reinitialised values: the call before it was of dimension 2
C11_Witness ==
    /\ pc = "loop" /\ gen = 1 /\ ncalls = 2 /\ m_memory
    /\ arg.prob.nx = 1 /\ Len(mean) = 1 /\ mean # Zero(1)
    /\ m_sigma0 # -Scale /\ sigma = m_sigma0
    /\ mean = InitMean(arg) /\ A = InitA(arg.prob, InitSigma)

\* the generations the running or the last call has executed: each evaluates
\* every individual once
GenerationsExecuted == (pop.fevals - fevals0) \div Len(pop.x)

\* C12: an evolve call that passes the checks executes at most as many
\* generations as the budget, for every budget of the unsigned type, its
\* largest value included, and then returns (or returns earlier on an exit
\* condition).
C12_AtMostBudgetGenerations ==
    (outcome \in {"running", "returned"} /\ Len(pop.x) > 0) =>
        /\ GenerationsExecuted <= m_gen
        /\ (pc = "loop" /\ GenerationsExecuted = m_gen) => ~(gen <= m_gen)

\* C13: the first generation of the first evolve call on a freshly constructed
\* instance, for every dimension D >= 1 and either memory flag, samples from
\* mean = the best individual given, A = the diagonal of max(ub - lb, 1e-6) *
\* sigma, and sigma = sigma0 or 1; sigma is positive in every generation
\* executed and in every line of the log.
C13_FirstGenerationInitialized ==
    /\ (pc = "loop" /\ ncalls = 1 /\ GenerationsExecuted = 0) =>
          /\ sigma = (IF m_sigma0 = -Scale THEN Scale ELSE m_sigma0)
          /\ mean = arg.x[BestIdx(arg)]
          /\ A = [i \in 1..arg.prob.nx |-> [j \in 1..arg.prob.nx |->
                     IF i = j
                     THEN Mul(Max(arg.prob.ub[j] - arg.prob.lb[j], MinWidth), sigma)
                     ELSE 0]]
    /\ pc = "loop" => sigma > 0
    /\ \A k \in 1..Len(m_log) : m_log[k].sigma > 0

====
